---- MODULE Spec2Model ----
(***************************************************************************)
(* Progress and gamification engine of JOINUP-SERVER: daily completions,   *)
(* streaks, trust score, badge evaluation, grade and completion rate.      *)
(*                                                                         *)
(* Time is a tick counter; TicksPerDay ticks make one UTC calendar day.    *)
(* A Date is the tick it denotes; a calendar day is the tick of its UTC    *)
(* midnight.  trustScore is stored in half points (Half units per point)   *)
(* because the streak bonus of 1.5 makes it a multiple of 0.5.             *)
(***************************************************************************)
EXTENDS Integers, Sequences, FiniteSets, TLC

\* ------------------------------------------------------------------ bounds
Users == {"u1", "u2", "u3"}
Challenges == {"c1", "c2"}
Photos == {"p1"}
Actors == {"u1"}
Reqs == {"r1", "r2"}
TicksPerDay == 2
StartDay == 10
MaxTicks == 4
SeedRuns == {0, 4, 9}
MaxBadges == 41
HistoryDays == 2
Pages == {1, 2}
Limits == {1, 2}

Half == 2
MaxTrustScore == 100
MaxRepresentative == 4
ScorePerCompletion == 10

StartTick == StartDay * TicksPerDay
MaxNow == StartTick + MaxTicks
NoDate == 0 - 1

\* ------------------------------------------------------------- sequences
Range(s) == {s[i] : i \in 1..Len(s)}

RECURSIVE SumOver(_, _)
SumOver(f, S) ==
  IF S = {} THEN 0
  ELSE LET x == CHOOSE y \in S : TRUE IN f[x] + SumOver(f, S \ {x})

MaxOf(S) == IF S = {} THEN 0 ELSE CHOOSE m \in S : \A y \in S : y <= m

Min(a, b) == IF a < b THEN a ELSE b

\* ---------------------------------------------------------------- dates
\* today.setUTCHours(0, 0, 0, 0)
UTCMidnight(t) == t - (t % TicksPerDay)

\* yesterday.setUTCDate(yesterday.getUTCDate() - 1)
DayBefore(d) == d - TicksPerDay

\* --------------------------------------------------------------- schemas
\* new UserChallenge({ userId, challengeId, startDate }) with schema defaults
NewUserChallenge(start) ==
  [exists |-> TRUE, startDate |-> start, completedDates |-> << >>,
   completionPhotos |-> << >>, score |-> 0, totalCompletions |-> 0,
   currentStreakCount |-> 0, maxStreakCount |-> 0, lastCompletionDate |-> NoDate]

\* the absence of a document for a (user, challenge) key
NoUserChallenge == [NewUserChallenge(NoDate) EXCEPT !.exists = FALSE]

\* new User({...}) with schema defaults
NewUser ==
  [trustScore |-> 0, grade |-> "bronze", earnedBadges |-> << >>,
   representativeBadges |-> << >>]

\* a challenge as createChallenge leaves it
NewChallenge(cat, maxP) ==
  [category |-> cat, maxParticipants |-> maxP, participants |-> << >>,
   userInfo |-> << >>, completionRate |-> 0]

\* now: the clock; userChallenges, users, challenges: the collections;
\* res: the outcome of the last completeChallenge or badge-check request
\* (status 0: the handler sends no response);
\* requests: the completeChallenge requests handled concurrently, each with
\* the documents it loaded (record and user), its in-memory changes, the
\* cascade stage whose database call was rejected and the status it was given
VARIABLES now, userChallenges, users, challenges, res, requests

vars == <<now, userChallenges, users, challenges, res, requests>>

\* ---------------------------------------------------------------- catalog
\* the Badge collection, in the order Badge.find() returns it
Catalog ==
  << [type |-> "completions", value |-> 5, categoryTarget |-> "none"],
     [type |-> "streak", value |-> 2, categoryTarget |-> "none"],
     [type |-> "score", value |-> 20, categoryTarget |-> "none"],
     [type |-> "challenges", value |-> 2, categoryTarget |-> "none"],
     [type |-> "days", value |-> 1, categoryTarget |-> "none"],
     [type |-> "category_completions", value |-> 1, categoryTarget |-> "study"] >>

BadgeIds == 1..Len(Catalog)

Category(c) == IF c = "c1" THEN "health" ELSE "study"

Capacity(c) == IF c = "c1" THEN 3 ELSE 1

Keys == Users \X Challenges

\* _id of the UserChallenge document of a key
IdOf(u, c) == <<u, c>>

\* ------------------------------------------------------------- responses
NoData ==
  [score |-> 0, totalCompletions |-> 0, currentStreakCount |-> 0,
   maxStreakCount |-> 0, completedDate |-> NoDate, trustScore |-> 0,
   trustScoreIncrease |-> 0, currentGrade |-> "none", totalBadges |-> 0]

Response(op, u, c, status, data) ==
  [op |-> op, userId |-> u, challengeId |-> c, status |-> status,
   success |-> (status = 200), data |-> data]

NoResponse == Response("none", "none", "none", 0, NoData)

\* a request slot that holds no request
IdleRequest ==
  [pc |-> "idle", userId |-> "none", challengeId |-> "none",
   loaded |-> NoUserChallenge, local |-> NoUserChallenge, today |-> NoDate,
   status |-> 0, user |-> NewUser, failed |-> "none"]

\* ------------------------------------------------- Completion Recorder
\* mutant: the day compared with is off by one
alreadyCompleted_OffByOne(doc, today) ==
  \E i \in 1..Len(doc.completedDates) : doc.completedDates[i] = today - TicksPerDay

\* completedDates.some(date => new Date(date).getTime() === today.getTime())
alreadyCompleted(doc, today) ==
  \E i \in 1..Len(doc.completedDates) : doc.completedDates[i] = today

\* mutant: any earlier completion counts as yesterday's
completedYesterday_AnyEarlier(doc, today) ==
  \E i \in 1..Len(doc.completedDates) : doc.completedDates[i] < today

\* completedDates.some(date => new Date(date).getTime() === yesterday.getTime())
completedYesterday(doc, today) ==
  \E i \in 1..Len(doc.completedDates) : doc.completedDates[i] = DayBefore(today)

\* mutant: the streak is never reset
NextStreak_NoReset(doc, today) == doc.currentStreakCount + 1

\* the streak counter after today's completion was pushed onto doc
NextStreak(doc, today) ==
  IF completedYesterday(doc, today) THEN doc.currentStreakCount + 1 ELSE 1

\* mutant: maxStreakCount is left as it was
CompleteLocal_StaleMax(doc, today, photoUrl) ==
  LET pushed == [doc EXCEPT
                   !.completedDates = Append(@, today),
                   !.completionPhotos = Append(@, [date |-> today, photoUrl |-> photoUrl]),
                   !.totalCompletions = @ + 1,
                   !.score = @ + ScorePerCompletion,
                   !.lastCompletionDate = today]
  IN [pushed EXCEPT !.currentStreakCount = NextStreak(pushed, today)]

\* mutant: the score increment grows with the streak
CompleteLocal_StreakScore(doc, today, photoUrl) ==
  LET pushed == [doc EXCEPT
                   !.completedDates = Append(@, today),
                   !.completionPhotos = Append(@, [date |-> today, photoUrl |-> photoUrl]),
                   !.totalCompletions = @ + 1,
                   !.lastCompletionDate = today]
      streak == NextStreak(pushed, today)
  IN [pushed EXCEPT
        !.score = @ + ScorePerCompletion * streak,
        !.currentStreakCount = streak,
        !.maxStreakCount = IF streak > @ THEN streak ELSE @]

\* mutant: the photo is not recorded
CompleteLocal_NoPhoto(doc, today, photoUrl) ==
  LET pushed == [doc EXCEPT
                   !.completedDates = Append(@, today),
                   !.totalCompletions = @ + 1,
                   !.score = @ + ScorePerCompletion,
                   !.lastCompletionDate = today]
      streak == NextStreak(pushed, today)
  IN [pushed EXCEPT
        !.currentStreakCount = streak,
        !.maxStreakCount = IF streak > @ THEN streak ELSE @]

\* the in-memory document after the handler's mutations, before save()
CompleteLocal(doc, today, photoUrl) ==
  LET pushed == [doc EXCEPT
                   !.completedDates = Append(@, today),
                   !.completionPhotos = Append(@, [date |-> today, photoUrl |-> photoUrl]),
                   !.totalCompletions = @ + 1,
                   !.score = @ + ScorePerCompletion,
                   !.lastCompletionDate = today]
      streak == NextStreak(pushed, today)
  IN [pushed EXCEPT
        !.currentStreakCount = streak,
        !.maxStreakCount = IF streak > @ THEN streak ELSE @]

\* document.save(): the changes since the document was loaded are applied to
\* the stored document; pushed array elements are appended ($push), changed
\* scalar paths are overwritten ($set), unchanged paths are not written
SaveDelta(stored, loaded, local) ==
  LET set(field) == IF local[field] = loaded[field] THEN stored[field] ELSE local[field]
  IN [exists |-> TRUE,
      startDate |-> set("startDate"),
      completedDates |-> stored.completedDates \o
         SubSeq(local.completedDates, Len(loaded.completedDates) + 1, Len(local.completedDates)),
      completionPhotos |-> stored.completionPhotos \o
         SubSeq(local.completionPhotos, Len(loaded.completionPhotos) + 1, Len(local.completionPhotos)),
      score |-> set("score"),
      totalCompletions |-> set("totalCompletions"),
      currentStreakCount |-> set("currentStreakCount"),
      maxStreakCount |-> set("maxStreakCount"),
      lastCompletionDate |-> set("lastCompletionDate")]

\* mutant: every bonus whose threshold is reached is added
TrustScoreIncrease_Cumulative(streak) ==
  1 * Half
  + (IF streak >= 10 THEN 2 * Half ELSE 0)
  + (IF streak >= 7 THEN (3 * Half) \div 2 ELSE 0)
  + (IF streak >= 3 THEN 1 * Half ELSE 0)

\* trustScoreIncrease, in half points: 1 base plus the streak bonus
TrustScoreIncrease(streak) ==
  IF streak >= 10 THEN 1 * Half + 2 * Half
  ELSE IF streak >= 7 THEN 1 * Half + (3 * Half) \div 2
  ELSE IF streak >= 3 THEN 1 * Half + 1 * Half
  ELSE 1 * Half

\* mutant: the sum is not capped
CappedTrust_NoCap(trust, increase) == trust + increase

\* Math.min(100, user.trustScore + trustScoreIncrease)
CappedTrust(trust, increase) == Min(MaxTrustScore * Half, trust + increase)

\* mutant: the brackets exclude their lower ends
GradeOf_Exclusive(badgeCount) ==
  IF badgeCount > 40 THEN "diamond"
  ELSE IF badgeCount > 20 THEN "gold"
  ELSE IF badgeCount > 10 THEN "silver"
  ELSE "bronze"

\* grade from the number of earned badges
GradeOf(badgeCount) ==
  IF badgeCount >= 40 THEN "diamond"
  ELSE IF badgeCount >= 20 THEN "gold"
  ELSE IF badgeCount >= 10 THEN "silver"
  ELSE "bronze"

\* ------------------------------------------------ Completion-Rate Aggregator
MaxPossibleDays == 30

\* UserChallenge.find({ challengeId }): the keys of the challenge's records
RecordsOfChallenge(ucs, c) == {k \in Keys : k[2] = c /\ ucs[k].exists}

\* Math.max(1, Math.min(daysSinceStart + 1, 30))
possibleDays(doc, t) ==
  LET daysSinceStart == (t - doc.startDate) \div TicksPerDay
      capped == Min(daysSinceStart + 1, MaxPossibleDays)
  IN IF capped < 1 THEN 1 ELSE capped

\* Math.round((actual / possible) * 100), round half up
RoundPercent(actual, possible) == (200 * actual + possible) \div (2 * possible)

\* mutant: a challenge without records is given the full rate
ComputedRate_EmptyFull(ucs, c, t) ==
  LET recs == RecordsOfChallenge(ucs, c)
      totalPossible == SumOver([k \in recs |-> possibleDays(ucs[k], t)], recs)
      totalActual == SumOver([k \in recs |-> ucs[k].totalCompletions], recs)
  IN IF recs = {} THEN 100
     ELSE IF totalPossible > 0 THEN RoundPercent(totalActual, totalPossible)
     ELSE 0

\* the rate updateCompletionRate assigns to challenge.completionRate
ComputedRate(ucs, c, t) ==
  LET recs == RecordsOfChallenge(ucs, c)
      totalPossible == SumOver([k \in recs |-> possibleDays(ucs[k], t)], recs)
      totalActual == SumOver([k \in recs |-> ucs[k].totalCompletions], recs)
  IN IF recs = {} THEN 0
     ELSE IF totalPossible > 0 THEN RoundPercent(totalActual, totalPossible)
     ELSE 0

\* schema validation of completionRate on challenge.save(): min 0, max 100
ValidRate(rate) == rate >= 0 /\ rate <= 100

\* updateCompletionRate(challengeId): a rate the schema rejects makes save()
\* throw, the catch logs it and the stored challenge is left as it was
updateCompletionRate(chs, ucs, c, t) ==
  LET rate == ComputedRate(ucs, c, t)
  IN IF ValidRate(rate) THEN [chs EXCEPT ![c].completionRate = rate] ELSE chs

\* --------------------------------------------------- Badge Evaluation Engine
\* a request object as the auth middleware leaves it
AuthRequest(u) == [kind |-> "object", userId |-> u]

\* a bare string passed where the handler expects the request object
StringArg(u) == [kind |-> "string", userId |-> u]

\* req.user!.id: reading .id of the undefined .user of a string throws
ReadsUserId(req) == req.kind = "object"

\* UserChallenge.find({ userId }): the keys of the user's records
RecordsOfUser(ucs, u) == {k \in Keys : k[1] = u /\ ucs[k].exists}

\* the lifetime aggregate a condition type is compared with
Aggregate(ucs, u, badge) ==
  LET recs == RecordsOfUser(ucs, u)
      inCategory == {k \in recs : Category(k[2]) = badge.categoryTarget}
  IN CASE badge.type = "completions" ->
            SumOver([k \in recs |-> ucs[k].totalCompletions], recs)
       [] badge.type = "streak" ->
            MaxOf({ucs[k].maxStreakCount : k \in recs} \cup {0})
       [] badge.type = "score" ->
            SumOver([k \in recs |-> ucs[k].score], recs)
       [] badge.type = "challenges" -> Cardinality(recs)
       [] badge.type = "days" ->
            SumOver([k \in recs |-> Len(ucs[k].completedDates)], recs)
       [] badge.type = "category_completions" ->
            SumOver([k \in inCategory |-> ucs[k].totalCompletions], inCategory)

\* the switch on badge.condition.type
conditionMet(ucs, u, badge) == Aggregate(ucs, u, badge) >= badge.value

\* mutant: badges already earned are not skipped
AwardStep_NoSkip(user, ucs, u, badgeId) ==
  IF ~conditionMet(ucs, u, Catalog[badgeId]) THEN user
  ELSE [user EXCEPT
          !.earnedBadges = Append(@, badgeId),
          !.representativeBadges =
             IF Len(@) < MaxRepresentative
             THEN Append(@, [badgeId |-> badgeId, order |-> Len(@) + 1])
             ELSE @]

\* mutant: the granted badge is put in front of the representative badges
AwardStep_Prepend(user, ucs, u, badgeId) ==
  IF badgeId \in Range(user.earnedBadges) THEN user
  ELSE IF ~conditionMet(ucs, u, Catalog[badgeId]) THEN user
  ELSE [user EXCEPT
          !.earnedBadges = Append(@, badgeId),
          !.representativeBadges =
             IF Len(@) < MaxRepresentative
             THEN << [badgeId |-> badgeId, order |-> Len(@) + 1] >> \o @
             ELSE @]

\* one iteration of the loop over allBadges on the in-memory user
AwardStep(user, ucs, u, badgeId) ==
  IF badgeId \in Range(user.earnedBadges) THEN user
  ELSE IF ~conditionMet(ucs, u, Catalog[badgeId]) THEN user
  ELSE [user EXCEPT
          !.earnedBadges = Append(@, badgeId),
          !.representativeBadges =
             IF Len(@) < MaxRepresentative
             THEN Append(@, [badgeId |-> badgeId, order |-> Len(@) + 1])
             ELSE @]

RECURSIVE AwardLoop(_, _, _, _)
\* the loop over allBadges from index i on
AwardLoop(user, ucs, u, i) ==
  IF i > Len(Catalog) THEN user
  ELSE AwardLoop(AwardStep(user, ucs, u, i), ucs, u, i + 1)

\* mutant: save() does not validate the orders
ValidRepresentative_LengthOnly(rep) == Len(rep) <= MaxRepresentative

\* the validators of representativeBadges run by user.save()
ValidRepresentative(rep) ==
  /\ Len(rep) <= MaxRepresentative
  /\ \A i, j \in 1..Len(rep) : i # j => rep[i].order # rep[j].order
  /\ \A i \in 1..Len(rep) : rep[i].order >= 1 /\ rep[i].order <= 4

\* checkAndAwardBadges(req): everything runs inside one try block, so a throw
\* (reading req.user.id, or a validation error of save()) persists nothing
checkAndAwardBadges(usrs, ucs, req) ==
  IF ~ReadsUserId(req) THEN usrs
  ELSE LET u == req.userId
           awarded == AwardLoop(usrs[u], ucs, u, 1)
       IN IF ValidRepresentative(awarded.representativeBadges)
          THEN [usrs EXCEPT ![u] = awarded]
          ELSE usrs

\* ----------------------------------------------------------------- actions
\* the clock advances
Tick ==
  /\ now < MaxNow
  /\ now' = now + 1
  /\ UNCHANGED <<userChallenges, users, challenges, res, requests>>

\* POST /challenge/:id/join
joinChallenge(u, c) ==
  LET challenge == challenges[c]
      key == <<u, c>>
      isAlreadyJoined == u \in Range(challenge.participants)
      isFull == Len(challenge.participants) >= challenge.maxParticipants
      created == [userChallenges EXCEPT ![key] = NewUserChallenge(now)]
      joined == [challenges EXCEPT
                   ![c].participants = Append(@, u),
                   ![c].userInfo = Append(@, IdOf(u, c))]
  IN /\ UNCHANGED <<now, users, requests>>
     /\ IF isAlreadyJoined \/ isFull
        THEN /\ UNCHANGED res
             /\ UNCHANGED <<userChallenges, challenges>>
        ELSE IF userChallenges[key].exists
        THEN \* the unique index on (userId, challengeId) rejects the insert
             /\ UNCHANGED res
             /\ UNCHANGED <<userChallenges, challenges>>
        ELSE /\ userChallenges' = created
             /\ challenges' = updateCompletionRate(joined, created, c, now)
             /\ UNCHANGED res

\* mutant: the id of the deleted record stays in userInfo
leaveChallenge_KeepUserInfo(u, c) ==
  LET key == <<u, c>>
      removed == [challenges EXCEPT
                    ![c].participants = SelectSeq(@, LAMBDA p : p # u)]
  IN /\ UNCHANGED <<now, users, requests>>
     /\ challenges' = removed
     /\ UNCHANGED res
     /\ IF ~userChallenges[key].exists
        THEN UNCHANGED userChallenges
        ELSE userChallenges' = [userChallenges EXCEPT ![key] = NoUserChallenge]

\* DELETE /challenge/:id/leave
leaveChallenge(u, c) ==
  LET key == <<u, c>>
      removed == [challenges EXCEPT
                    ![c].participants = SelectSeq(@, LAMBDA p : p # u)]
      cleaned == [removed EXCEPT
                    ![c].userInfo = SelectSeq(@, LAMBDA i : i # IdOf(u, c))]
  IN /\ UNCHANGED <<now, users, requests>>
     /\ IF ~userChallenges[key].exists
        THEN /\ challenges' = removed
             /\ UNCHANGED res
             /\ UNCHANGED userChallenges
        ELSE /\ challenges' = cleaned
             /\ userChallenges' = [userChallenges EXCEPT ![key] = NoUserChallenge]
             /\ UNCHANGED res

\* lines 356-434 of completeChallenge: save the record, raise the trust score,
\* evaluate badges, reclassify the grade, recompute the rate, respond
completeSave(u, c, loaded, local, today) ==
  LET key == <<u, c>>
      saved == [userChallenges EXCEPT
                  ![key] = SaveDelta(userChallenges[key], loaded, local)]
      trustScoreIncrease == TrustScoreIncrease(local.currentStreakCount)
      trusted == [users EXCEPT
                    ![u].trustScore = CappedTrust(@, trustScoreIncrease)]
      badged == checkAndAwardBadges(trusted, saved, StringArg(u))
      graded == [badged EXCEPT ![u].grade = GradeOf(Len(badged[u].earnedBadges))]
      finalUser == graded[u]
  IN IF ~userChallenges[key].exists
     THEN \* save() of a document deleted in the meantime throws
          /\ res' = Response("completeChallenge", u, c, 500, NoData)
          /\ UNCHANGED <<userChallenges, users, challenges>>
     ELSE /\ userChallenges' = saved
          /\ users' = graded
          /\ challenges' = updateCompletionRate(challenges, saved, c, now)
          /\ res' = Response("completeChallenge", u, c, 200,
               [score |-> local.score,
                totalCompletions |-> local.totalCompletions,
                currentStreakCount |-> local.currentStreakCount,
                maxStreakCount |-> local.maxStreakCount,
                completedDate |-> today,
                trustScore |-> finalUser.trustScore,
                trustScoreIncrease |-> trustScoreIncrease,
                currentGrade |-> finalUser.grade,
                totalBadges |-> Len(finalUser.earnedBadges)])

\* mutant: a completion of a day already completed is rejected only after the
\* trust score was raised
completeChallenge_LateReject(u, c, photoUrl) ==
  LET loaded == userChallenges[<<u, c>>]
      today == UTCMidnight(now)
  IN /\ UNCHANGED <<now, requests>>
     /\ IF ~loaded.exists
        THEN /\ res' = Response("completeChallenge", u, c, 404, NoData)
             /\ UNCHANGED <<userChallenges, users, challenges>>
        ELSE IF alreadyCompleted(loaded, today)
        THEN /\ res' = Response("completeChallenge", u, c, 400, NoData)
             /\ users' = [users EXCEPT ![u].trustScore =
                            CappedTrust(@, TrustScoreIncrease(loaded.currentStreakCount))]
             /\ UNCHANGED <<userChallenges, challenges>>
        ELSE completeSave(u, c, loaded, CompleteLocal(loaded, today, photoUrl), today)

\* POST /challenge/:id/complete, run to completion
completeChallenge(u, c, photoUrl) ==
  LET loaded == userChallenges[<<u, c>>]
      today == UTCMidnight(now)
  IN /\ UNCHANGED <<now, requests>>
     /\ IF ~loaded.exists
        THEN /\ res' = Response("completeChallenge", u, c, 404, NoData)
             /\ UNCHANGED <<userChallenges, users, challenges>>
        ELSE IF alreadyCompleted(loaded, today)
        THEN /\ res' = Response("completeChallenge", u, c, 400, NoData)
             /\ UNCHANGED <<userChallenges, users, challenges>>
        ELSE completeSave(u, c, loaded, CompleteLocal(loaded, today, photoUrl), today)

\* POST /badge/check: the handler returns without sending a response
checkBadges(u) ==
  /\ users' = checkAndAwardBadges(users, userChallenges, AuthRequest(u))
  /\ res' = Response("checkAndAwardBadges", u, "none", 0, NoData)
  /\ UNCHANGED <<now, userChallenges, challenges, requests>>

\* request bodies of PUT /badge/representative
RepInputs ==
  { << [badgeId |-> 5, order |-> 2] >>,
    << [badgeId |-> 5, order |-> 5] >>,
    << [badgeId |-> 5, order |-> 2], [badgeId |-> 2, order |-> 1] >>,
    << [badgeId |-> 5, order |-> 1], [badgeId |-> 2, order |-> 1] >> }

\* PUT /badge/representative
updateRepresentativeBadges(u, badges) ==
  LET ordersOk == /\ \A i, j \in 1..Len(badges) : i # j => badges[i].order # badges[j].order
                  /\ \A i \in 1..Len(badges) : ~(badges[i].order < 1 \/ badges[i].order > 4)
      notEarned == {i \in 1..Len(badges) : badges[i].badgeId \notin Range(users[u].earnedBadges)}
  IN /\ UNCHANGED <<now, userChallenges, challenges, requests>>
     /\ IF Len(badges) > 4 \/ ~ordersOk \/ notEarned # {}
        THEN /\ UNCHANGED res
             /\ UNCHANGED users
        ELSE /\ users' = [users EXCEPT ![u].representativeBadges = badges]
             /\ UNCHANGED res

\* ------------------------------------------------------------------- Init
\* the calendar days of a run of n consecutive days that ends the day before d
RunBefore(d, n) == [i \in 1..n |-> d - (n - i + 1) * TicksPerDay]

\* the record of a user who joined n days ago and completed every day since,
\* yesterday included
SeedRecord(n, photoUrl) ==
  LET today == UTCMidnight(StartTick)
      days == RunBefore(today, n)
  IN [exists |-> TRUE, startDate |-> today - n * TicksPerDay,
      completedDates |-> days,
      completionPhotos |-> [i \in 1..n |-> [date |-> days[i], photoUrl |-> photoUrl]],
      score |-> ScorePerCompletion * n, totalCompletions |-> n,
      currentStreakCount |-> n, maxStreakCount |-> n,
      lastCompletionDate |-> DayBefore(today)]

RECURSIVE TrustAfterRun(_)
\* the trust score that n completions on consecutive days add up to
TrustAfterRun(n) ==
  IF n = 0 THEN 0 ELSE CappedTrust(TrustAfterRun(n - 1), TrustScoreIncrease(n))

\* the trust score of the seeded user: what a short run alone gives, and 99
\* (earned in challenges left since) for a long one
SeedTrust(n) == IF n < 9 THEN TrustAfterRun(n) ELSE (MaxTrustScore - 1) * Half

Init ==
  /\ now = StartTick
  /\ requests = [r \in Reqs |-> IdleRequest]
  /\ res = NoResponse
  /\ \E n \in SeedRuns :
       IF n = 0
       THEN /\ userChallenges = [k \in Keys |-> NoUserChallenge]
            /\ users = [u \in Users |-> NewUser]
            /\ challenges = [c \in Challenges |-> NewChallenge(Category(c), Capacity(c))]
       ELSE /\ userChallenges = [k \in Keys |->
                 IF k = <<"u1", "c1">> THEN SeedRecord(n, "p1") ELSE NoUserChallenge]
            /\ users = [u \in Users |->
                 IF u = "u1" THEN [NewUser EXCEPT !.trustScore = SeedTrust(n)] ELSE NewUser]
            /\ challenges = [c \in Challenges |->
                 IF c = "c1"
                 THEN [NewChallenge(Category(c), Capacity(c)) EXCEPT
                         !.participants = << "u1" >>,
                         !.userInfo = << IdOf("u1", "c1") >>,
                         !.completionRate = 100]
                 ELSE NewChallenge(Category(c), Capacity(c))]

\* ------------------------------------------------------------------- Spec
\* requests run one after another, issued by the users in Actors
Next ==
  \/ Tick
  \/ \E u \in Actors, c \in Challenges : joinChallenge(u, c)
  \/ \E u \in Actors, c \in Challenges, p \in Photos : completeChallenge(u, c, p)
  \/ \E u \in Actors : checkBadges(u)
  \/ \E u \in Actors, b \in RepInputs : updateRepresentativeBadges(u, b)

Spec == Init /\ [][Next]_vars

\* ------------------------------------------------- overlapping completions
\* lines 279-354 of completeChallenge in request slot r: load the record,
\* reject, or prepare the changes in memory; the handler then awaits save()
completeLoad(r, u, c, photoUrl) ==
  LET loaded == userChallenges[<<u, c>>]
      today == UTCMidnight(now)
      request == [IdleRequest EXCEPT !.userId = u, !.challengeId = c, !.today = today]
  IN /\ requests[r].pc = "idle"
     /\ UNCHANGED <<now, userChallenges, users, challenges>>
     /\ IF ~loaded.exists
        THEN /\ res' = Response("completeChallenge", u, c, 404, NoData)
             /\ requests' = [requests EXCEPT ![r] = [request EXCEPT !.status = 404]]
        ELSE IF alreadyCompleted(loaded, today)
        THEN /\ res' = Response("completeChallenge", u, c, 400, NoData)
             /\ requests' = [requests EXCEPT ![r] = [request EXCEPT !.status = 400]]
        ELSE /\ UNCHANGED res
             /\ requests' = [requests EXCEPT ![r] =
                  [request EXCEPT !.pc = "loaded", !.loaded = loaded,
                                  !.local = CompleteLocal(loaded, today, photoUrl)]]

\* lines 356-434 of completeChallenge in request slot r
completeStore(r) ==
  LET request == requests[r]
  IN /\ request.pc = "loaded"
     /\ completeSave(request.userId, request.challengeId, request.loaded,
                     request.local, request.today)
     /\ requests' = [requests EXCEPT ![r] =
          [request EXCEPT !.pc = "idle", !.loaded = NoUserChallenge,
                          !.local = NoUserChallenge, !.status = res'.status]]
     /\ UNCHANGED now

RaceChallenges == {"c1"}

\* completeChallenge requests of one user for one challenge overlap; the other
\* requests run one after another
NextRace ==
  \/ Tick
  \/ \E u \in Actors, c \in RaceChallenges : joinChallenge(u, c)
  \/ \E r \in Reqs, u \in Actors, c \in RaceChallenges, p \in Photos :
       completeLoad(r, u, c, p)
  \/ \E r \in Reqs : completeStore(r)

SpecRace == Init /\ [][NextRace]_vars

\* ------------------------------------------------------ the cascade, staged
\* the cascade stage whose database call is rejected: user.save() of the trust
\* score, the queries of the badge pass, User.findById before the grade, the
\* queries of updateCompletionRate
Faults == {"none", "trust", "badges", "grade", "rate"}

\* lines 279-362 of completeChallenge in request slot r: load the record,
\* reject, or save today's completion and read the user; the handler then
\* awaits the writes of the cascade
cascadeLoad(r, u, c, photoUrl) ==
  LET key == <<u, c>>
      loaded == userChallenges[key]
      today == UTCMidnight(now)
      local == CompleteLocal(loaded, today, photoUrl)
      request == [IdleRequest EXCEPT !.userId = u, !.challengeId = c, !.today = today]
  IN /\ requests[r].pc = "idle"
     /\ UNCHANGED <<now, users, challenges>>
     /\ IF ~loaded.exists
        THEN /\ res' = Response("completeChallenge", u, c, 404, NoData)
             /\ requests' = [requests EXCEPT ![r] = [request EXCEPT !.status = 404]]
             /\ UNCHANGED userChallenges
        ELSE IF alreadyCompleted(loaded, today)
        THEN /\ res' = Response("completeChallenge", u, c, 400, NoData)
             /\ requests' = [requests EXCEPT ![r] = [request EXCEPT !.status = 400]]
             /\ UNCHANGED userChallenges
        ELSE /\ userChallenges' = [userChallenges EXCEPT
                                     ![key] = SaveDelta(loaded, loaded, local)]
             /\ requests' = [requests EXCEPT ![r] =
                  [request EXCEPT !.pc = "saved", !.local = local, !.user = users[u]]]
             /\ UNCHANGED res

\* lines 366-448 of completeChallenge in request slot r: the trust score is
\* computed from the user that was read and saved ($set of trustScore), then
\* badges, grade, rate and the response.  A rejected call of the trust or the
\* grade stage reaches the outer catch (500); the badge pass and
\* updateCompletionRate catch and log their own errors
cascadeStore(r, fault) ==
  LET request == requests[r]
      u == request.userId
      c == request.challengeId
      trustScoreIncrease == TrustScoreIncrease(request.local.currentStreakCount)
      trusted == [users EXCEPT
                    ![u].trustScore = CappedTrust(request.user.trustScore, trustScoreIncrease)]
      badged == IF fault = "badges" THEN trusted
                ELSE checkAndAwardBadges(trusted, userChallenges, StringArg(u))
      graded == [badged EXCEPT ![u].grade = GradeOf(Len(badged[u].earnedBadges))]
      rated == IF fault = "rate" THEN challenges
               ELSE updateCompletionRate(challenges, userChallenges, c, now)
      finalUser == graded[u]
      done(status) == [IdleRequest EXCEPT
                         !.userId = u, !.challengeId = c, !.today = request.today,
                         !.status = status, !.failed = fault]
  IN /\ request.pc = "saved"
     /\ UNCHANGED <<now, userChallenges>>
     /\ IF fault = "trust"
        THEN /\ res' = Response("completeChallenge", u, c, 500, NoData)
             /\ requests' = [requests EXCEPT ![r] = done(500)]
             /\ UNCHANGED <<users, challenges>>
        ELSE IF fault = "grade"
        THEN /\ res' = Response("completeChallenge", u, c, 500, NoData)
             /\ requests' = [requests EXCEPT ![r] = done(500)]
             /\ users' = badged
             /\ UNCHANGED challenges
        ELSE /\ users' = graded
             /\ challenges' = rated
             /\ requests' = [requests EXCEPT ![r] = done(200)]
             /\ res' = Response("completeChallenge", u, c, 200,
                  [score |-> request.local.score,
                   totalCompletions |-> request.local.totalCompletions,
                   currentStreakCount |-> request.local.currentStreakCount,
                   maxStreakCount |-> request.local.maxStreakCount,
                   completedDate |-> request.today,
                   trustScore |-> finalUser.trustScore,
                   trustScoreIncrease |-> trustScoreIncrease,
                   currentGrade |-> finalUser.grade,
                   totalBadges |-> Len(finalUser.earnedBadges)])

\* completions of one challenge in which a database call of the cascade may
\* be rejected
NextFault ==
  \/ Tick
  \/ \E u \in Actors, c \in RaceChallenges : joinChallenge(u, c)
  \/ \E r \in Reqs, u \in Actors, c \in RaceChallenges, p \in Photos :
       cascadeLoad(r, u, c, p)
  \/ \E r \in Reqs, fault \in Faults : cascadeStore(r, fault)

SpecFault == Init /\ [][NextFault]_vars

\* the request slot that handles the completions of a challenge
SlotOf(c) == IF c = "c1" THEN "r1" ELSE "r2"

\* completions of one user for two different challenges overlap between the
\* read and the save of the user
NextTrust ==
  \/ Tick
  \/ \E u \in Actors, c \in Challenges : joinChallenge(u, c)
  \/ \E u \in Actors, c \in Challenges, p \in Photos :
       cascadeLoad(SlotOf(c), u, c, p)
  \/ \E r \in Reqs : cascadeStore(r, "none")

SpecTrust == Init /\ [][NextTrust]_vars

\* a participant leaves a challenge, possibly while a completion is in its
\* cascade
NextLeave ==
  \/ Tick
  \/ \E u \in Actors, c \in RaceChallenges : leaveChallenge(u, c)
  \/ \E r \in Reqs, u \in Actors, c \in RaceChallenges, p \in Photos :
       cascadeLoad(r, u, c, p)
  \/ \E r \in Reqs : cascadeStore(r, "none")

SpecLeave == Init /\ [][NextLeave]_vars

\* join, complete and leave requests of one challenge, each run to completion
\* before the next starts
NextSeq ==
  \/ Tick
  \/ \E u \in Actors, c \in RaceChallenges : joinChallenge(u, c)
  \/ \E u \in Actors, c \in RaceChallenges, p \in Photos : completeChallenge(u, c, p)
  \/ \E u \in Actors, c \in RaceChallenges : leaveChallenge(u, c)

SpecSeq == Init /\ [][NextSeq]_vars

\* join and leave requests of every user for every challenge, each run to
\* completion before the next starts
NextMember ==
  \/ Tick
  \/ \E u \in Users, c \in Challenges : joinChallenge(u, c)
  \/ \E u \in Users, c \in Challenges : leaveChallenge(u, c)

SpecMember == Init /\ [][NextMember]_vars

\* ------------------------------------------------------- overlapping joins
\* lines 171-198 of joinChallenge in request slot r: load the challenge and
\* reject a user already in participants or a full challenge; the handler
\* then awaits userChallenge.save()
joinLoad(r, u, c) ==
  LET challenge == challenges[c]
      isAlreadyJoined == u \in Range(challenge.participants)
      isFull == Len(challenge.participants) >= challenge.maxParticipants
      request == [IdleRequest EXCEPT !.userId = u, !.challengeId = c]
  IN /\ requests[r].pc = "idle"
     /\ UNCHANGED <<now, userChallenges, users, challenges, res>>
     /\ IF isAlreadyJoined \/ isFull
        THEN requests' = [requests EXCEPT ![r] = [IdleRequest EXCEPT !.status = 400]]
        ELSE requests' = [requests EXCEPT ![r] = [request EXCEPT !.pc = "joining"]]

\* lines 200-226 of joinChallenge in request slot r: insert the record, push
\* the user and the record id onto the stored lists, recompute the rate
joinStore(r) ==
  LET request == requests[r]
      u == request.userId
      c == request.challengeId
      key == <<u, c>>
      created == [userChallenges EXCEPT ![key] = NewUserChallenge(now)]
      joined == [challenges EXCEPT
                   ![c].participants = Append(@, u),
                   ![c].userInfo = Append(@, IdOf(u, c))]
  IN /\ request.pc = "joining"
     /\ UNCHANGED <<now, users, res>>
     /\ IF userChallenges[key].exists
        THEN \* the unique index on (userId, challengeId) rejects the insert
             /\ UNCHANGED <<userChallenges, challenges>>
             /\ requests' = [requests EXCEPT ![r] = [IdleRequest EXCEPT !.status = 500]]
        ELSE /\ userChallenges' = created
             /\ challenges' = updateCompletionRate(joined, created, c, now)
             /\ requests' = [requests EXCEPT ![r] = [IdleRequest EXCEPT !.status = 200]]

\* the request slot the joins of a user run in
JoinSlot(u) == IF u = "u1" THEN "r1" ELSE "r2"

\* joinChallenge requests of different users overlap between the read of the
\* challenge and its save
NextJoinRace ==
  \/ Tick
  \/ \E u \in Users, c \in Challenges : joinLoad(JoinSlot(u), u, c)
  \/ \E r \in Reqs : joinStore(r)

SpecJoinRace == Init /\ [][NextJoinRace]_vars

\* ------------------------------------------------------- grade by badge count
\* earnedBadges of a user who earned n badges of an earlier catalog;
\* deleteBadge removes a badge from the catalog and leaves earnedBadges alone
EarnedBefore(n) == [i \in 1..n |-> Len(Catalog) + i]

\* a participant of c1 with any number of earned badges
InitGrade ==
  /\ now = StartTick
  /\ requests = [r \in Reqs |-> IdleRequest]
  /\ res = NoResponse
  /\ userChallenges = [k \in Keys |->
       IF k = <<"u1", "c1">> THEN SeedRecord(4, "p1") ELSE NoUserChallenge]
  /\ challenges = [c \in Challenges |->
       IF c = "c1"
       THEN [NewChallenge(Category(c), Capacity(c)) EXCEPT
               !.participants = << "u1" >>,
               !.userInfo = << IdOf("u1", "c1") >>,
               !.completionRate = 100]
       ELSE NewChallenge(Category(c), Capacity(c))]
  /\ \E n \in 0..MaxBadges :
       users = [u \in Users |->
         IF u = "u1"
         THEN [NewUser EXCEPT !.trustScore = SeedTrust(4), !.earnedBadges = EarnedBefore(n)]
         ELSE NewUser]

\* the grade is reclassified by each completion
NextGrade ==
  \/ Tick
  \/ \E u \in Actors, c \in RaceChallenges, p \in Photos : completeChallenge(u, c, p)

SpecGrade == InitGrade /\ [][NextGrade]_vars

\* a participant of c1 with any number of earned badges, as the last
\* completion left them: the grade is the one of the badge count
InitPass ==
  /\ now = StartTick
  /\ requests = [r \in Reqs |-> IdleRequest]
  /\ res = NoResponse
  /\ userChallenges = [k \in Keys |->
       IF k = <<"u1", "c1">> THEN SeedRecord(4, "p1") ELSE NoUserChallenge]
  /\ challenges = [c \in Challenges |->
       IF c = "c1"
       THEN [NewChallenge(Category(c), Capacity(c)) EXCEPT
               !.participants = << "u1" >>,
               !.userInfo = << IdOf("u1", "c1") >>,
               !.completionRate = 100]
       ELSE NewChallenge(Category(c), Capacity(c))]
  /\ \E n \in 0..MaxBadges :
       users = [u \in Users |->
         IF u = "u1"
         THEN [NewUser EXCEPT !.trustScore = SeedTrust(4),
                              !.earnedBadges = EarnedBefore(n),
                              !.grade = GradeOf(n)]
         ELSE NewUser]

\* badge passes of the badge-check route and of completions
NextPass ==
  \/ Tick
  \/ \E u \in Actors, c \in RaceChallenges, p \in Photos : completeChallenge(u, c, p)
  \/ \E u \in Actors : checkBadges(u)

SpecPass == InitPass /\ [][NextPass]_vars

\* ----------------------------------------------------------- Ranking Service
RankingTypes == {"score", "completions", "streak"}

\* mutant: the streak ranking breaks ties of maxStreakCount by score first
sortField_ScoreFirst(rankingType) ==
  IF rankingType = "completions" THEN << "totalCompletions", "score" >>
  ELSE IF rankingType = "streak"
  THEN << "maxStreakCount", "score", "currentStreakCount" >>
  ELSE << "score", "totalCompletions" >>

\* mutant: the list is sorted by the primary key of the metric only
sortField_PrimaryOnly(rankingType) ==
  IF rankingType = "completions" THEN << "totalCompletions" >>
  ELSE IF rankingType = "streak" THEN << "maxStreakCount" >>
  ELSE << "score" >>

\* the $sort specification of getChallengeRanking, every key descending
sortField(rankingType) ==
  IF rankingType = "completions" THEN << "totalCompletions", "score" >>
  ELSE IF rankingType = "streak"
  THEN << "maxStreakCount", "currentStreakCount", "score" >>
  ELSE << "score", "totalCompletions" >>

\* the single $sort key of getUserRanking
userSortField(rankingType) ==
  IF rankingType = "completions" THEN << "totalCompletions" >>
  ELSE IF rankingType = "streak" THEN << "maxStreakCount" >>
  ELSE << "totalScore" >>

RECURSIVE Precedes(_, _, _, _)
\* document a sorts strictly before document b on the keys from index i on
Precedes(a, b, keys, i) ==
  IF i > Len(keys) THEN FALSE
  ELSE IF a[keys[i]] > b[keys[i]] THEN TRUE
  ELSE IF a[keys[i]] < b[keys[i]] THEN FALSE
  ELSE Precedes(a, b, keys, i + 1)

\* the outcomes of $sort: every arrangement of the documents in which no
\* document sorts strictly before an earlier one; the order of documents that
\* are equal on every key is not determined
SortOutcomes(docs, keys) ==
  {s \in [1..Cardinality(docs) -> docs] :
     /\ \A i, j \in 1..Cardinality(docs) : i # j => s[i] # s[j]
     /\ \A i, j \in 1..Cardinality(docs) : i < j => ~Precedes(s[j], s[i], keys, 1)}

\* $skip and $limit
PageOf(sorted, page, limit) ==
  LET skip == (page - 1) * limit
  IN IF skip >= Len(sorted) THEN << >>
     ELSE SubSeq(sorted, skip + 1, Min(skip + limit, Len(sorted)))

\* rankings.map((doc, index) => ({ rank: (page - 1) * limit + index + 1, ... }))
Ranked(docs, page, limit) ==
  [i \in 1..Len(docs) |-> [rank |-> (page - 1) * limit + (i - 1) + 1, doc |-> docs[i]]]

\* the $match and $project stages of getChallengeRanking
ChallengeDocs(c) ==
  {[userId |-> k[1],
    score |-> userChallenges[k].score,
    totalCompletions |-> userChallenges[k].totalCompletions,
    currentStreakCount |-> userChallenges[k].currentStreakCount,
    maxStreakCount |-> userChallenges[k].maxStreakCount] :
     k \in RecordsOfChallenge(userChallenges, c)}

\* the $group and $project stages of getUserRanking
UserDocs ==
  {[userId |-> u,
    totalScore |-> SumOver([k \in RecordsOfUser(userChallenges, u) |-> userChallenges[k].score],
                           RecordsOfUser(userChallenges, u)),
    totalCompletions |->
      SumOver([k \in RecordsOfUser(userChallenges, u) |-> userChallenges[k].totalCompletions],
              RecordsOfUser(userChallenges, u)),
    maxStreakCount |->
      MaxOf({userChallenges[k].maxStreakCount : k \in RecordsOfUser(userChallenges, u)})] :
     u \in {v \in Users : RecordsOfUser(userChallenges, v) # {}}}

\* the data of a ranking response
RankingData(rankingType, page, limit, rankings, total) ==
  [rankingType |-> rankingType, page |-> page, limit |-> limit,
   rankings |-> rankings, total |-> total]

\* GET /userchallenge/challenge/:challengeId/ranking
getChallengeRanking(c, rankingType, page, limit) ==
  /\ \E sorted \in SortOutcomes(ChallengeDocs(c), sortField(rankingType)) :
       res' = Response("getChallengeRanking", "none", c, 200,
                RankingData(rankingType, page, limit,
                            Ranked(PageOf(sorted, page, limit), page, limit),
                            Cardinality(ChallengeDocs(c))))
  /\ UNCHANGED <<now, userChallenges, users, challenges, requests>>

\* GET /userchallenge/ranking
getUserRanking(rankingType, page, limit) ==
  /\ \E sorted \in SortOutcomes(UserDocs, userSortField(rankingType)) :
       res' = Response("getUserRanking", "none", "none", 200,
                RankingData(rankingType, page, limit,
                            Ranked(PageOf(sorted, page, limit), page, limit),
                            Cardinality(UserDocs)))
  /\ UNCHANGED <<now, userChallenges, users, challenges, requests>>

\* the calendar day i of the HistoryDays days before the run starts
HistoryDay(i) == UTCMidnight(StartTick) - (HistoryDays - i + 1) * TicksPerDay

RECURSIVE Replay(_, _, _)
\* the record and the trust score after completions on the days in S, in
\* calendar order, each as completeChallenge leaves them
Replay(doc, trust, S) ==
  IF S = {} THEN [doc |-> doc, trust |-> trust]
  ELSE LET i == CHOOSE x \in S : \A y \in S : x <= y
           local == CompleteLocal(doc, HistoryDay(i), "p1")
       IN Replay(local, CappedTrust(trust, TrustScoreIncrease(local.currentStreakCount)),
                 S \ {i})

\* the users who joined c1 HistoryDays days ago
Veterans == {"u1", "u2"}

\* the veterans joined c1 HistoryDays days ago and completed it on any of the
\* days since
InitRank ==
  /\ now = StartTick
  /\ requests = [r \in Reqs |-> IdleRequest]
  /\ res = NoResponse
  /\ \E history \in [Veterans -> SUBSET (1..HistoryDays)] :
       LET past == [u \in Users |->
                      IF u \in Veterans
                      THEN Replay(NewUserChallenge(HistoryDay(1)), 0, history[u])
                      ELSE [doc |-> NoUserChallenge, trust |-> 0]]
           ucs == [k \in Keys |-> IF k[2] = "c1" THEN past[k[1]].doc ELSE NoUserChallenge]
           joined == [c \in Challenges |->
                        IF c = "c1"
                        THEN [NewChallenge(Category(c), Capacity(c)) EXCEPT
                                !.participants = << "u1", "u2" >>,
                                !.userInfo = << IdOf("u1", "c1"), IdOf("u2", "c1") >>]
                        ELSE NewChallenge(Category(c), Capacity(c))]
       IN /\ userChallenges = ucs
          /\ users = [u \in Users |-> [NewUser EXCEPT !.trustScore = past[u].trust]]
          /\ challenges = updateCompletionRate(joined, ucs, "c1", StartTick)

\* completions of a participant of c1 and ranking queries
NextRank ==
  \/ Tick
  \/ \E u \in Actors, c \in RaceChallenges, p \in Photos : completeChallenge(u, c, p)
  \/ \E c \in RaceChallenges, t \in RankingTypes, page \in Pages, limit \in Limits :
       getChallengeRanking(c, t, page, limit)
  \/ \E t \in RankingTypes, page \in Pages, limit \in Limits :
       getUserRanking(t, page, limit)

SpecRank == InitRank /\ [][NextRank]_vars

\* ------------------------------------------------------------------ my rank
\* mutant: only the primary key of the metric is compared
Outranks_PrimaryOnly(doc, my, rankingType) ==
  IF rankingType = "completions" THEN doc.totalCompletions > my.totalCompletions
  ELSE IF rankingType = "streak" THEN doc.maxStreakCount > my.maxStreakCount
  ELSE doc.score > my.score

\* the $or of matchCondition: doc counts as ranked higher than my record
Outranks(doc, my, rankingType) ==
  IF rankingType = "completions"
  THEN \/ doc.totalCompletions > my.totalCompletions
       \/ (doc.totalCompletions = my.totalCompletions /\ doc.score > my.score)
  ELSE IF rankingType = "streak"
  THEN \/ doc.maxStreakCount > my.maxStreakCount
       \/ (doc.maxStreakCount = my.maxStreakCount
           /\ doc.currentStreakCount > my.currentStreakCount)
       \/ (doc.maxStreakCount = my.maxStreakCount
           /\ doc.currentStreakCount = my.currentStreakCount
           /\ doc.score > my.score)
  ELSE \/ doc.score > my.score
       \/ (doc.score = my.score /\ doc.totalCompletions > my.totalCompletions)

\* Math.round(((totalParticipants - myRank + 1) / totalParticipants) * 100)
Percentile(totalParticipants, myRank) ==
  RoundPercent(totalParticipants - myRank + 1, totalParticipants)

\* the data of a my-rank response
MyRankData(rankingType, rank, total, percentile) ==
  [rankingType |-> rankingType, rank |-> rank, totalParticipants |-> total,
   percentile |-> percentile]

\* GET /userchallenge/challenge/:challengeId/my-rank
getMyChallengeRank(u, c, rankingType) ==
  LET my == userChallenges[<<u, c>>]
      recs == RecordsOfChallenge(userChallenges, c)
      higherRankCount ==
        Cardinality({k \in recs : Outranks(userChallenges[k], my, rankingType)})
      myRank == higherRankCount + 1
      totalParticipants == Cardinality(recs)
  IN /\ UNCHANGED <<now, userChallenges, users, challenges, requests>>
     /\ IF ~my.exists
        THEN res' = Response("getMyChallengeRank", u, c, 404,
                      MyRankData(rankingType, 0, 0, 0))
        ELSE res' = Response("getMyChallengeRank", u, c, 200,
                      MyRankData(rankingType, myRank, totalParticipants,
                                 Percentile(totalParticipants, myRank)))

\* c1 has three participants: the veterans with their completions, and a
\* third user who joined with them and has not completed yet
InitMyRank ==
  /\ now = StartTick
  /\ requests = [r \in Reqs |-> IdleRequest]
  /\ res = NoResponse
  /\ \E history \in [Veterans -> SUBSET (1..HistoryDays)] :
       LET past == [u \in Users |->
                      Replay(NewUserChallenge(HistoryDay(1)), 0,
                             IF u \in Veterans THEN history[u] ELSE {})]
           ucs == [k \in Keys |-> IF k[2] = "c1" THEN past[k[1]].doc ELSE NoUserChallenge]
           joined == [c \in Challenges |->
                        IF c = "c1"
                        THEN [NewChallenge(Category(c), Capacity(c)) EXCEPT
                                !.participants = << "u1", "u2", "u3" >>,
                                !.userInfo = << IdOf("u1", "c1"), IdOf("u2", "c1"),
                                                IdOf("u3", "c1") >>]
                        ELSE NewChallenge(Category(c), Capacity(c))]
       IN /\ userChallenges = ucs
          /\ users = [u \in Users |-> [NewUser EXCEPT !.trustScore = past[u].trust]]
          /\ challenges = updateCompletionRate(joined, ucs, "c1", StartTick)

\* completions of a participant of c1 and my-rank queries of all of them
NextMyRank ==
  \/ Tick
  \/ \E u \in Actors, c \in RaceChallenges, p \in Photos : completeChallenge(u, c, p)
  \/ \E u \in Users, c \in Challenges, t \in RankingTypes :
       getMyChallengeRank(u, c, t)

SpecMyRank == InitMyRank /\ [][NextMyRank]_vars

\* ================================================================= claims
\* the UTC calendar day of a tick, as the tick of its midnight
DayOf(t) == (t \div TicksPerDay) * TicksPerDay

\* the number of entries of a sequence equal to x
Count(seq, x) == Cardinality({i \in 1..Len(seq) : seq[i] = x})

\* slot r holds an answered request
Answered(r) == requests[r].pc = "idle" /\ requests[r].status # 0

\* C1: two completeChallenge requests for the same user, challenge and UTC
\* day are never both answered with success, and no day is twice in
\* completedDates
C1_OneSuccessPerDay ==
  /\ \A r1, r2 \in Reqs :
       (/\ r1 # r2
        /\ Answered(r1) /\ Answered(r2)
        /\ requests[r1].userId = requests[r2].userId
        /\ requests[r1].challengeId = requests[r2].challengeId
        /\ requests[r1].today = requests[r2].today)
       => ~(requests[r1].status = 200 /\ requests[r2].status = 200)
  /\ \A k \in Keys : \A d \in Range(userChallenges[k].completedDates) :
       Count(userChallenges[k].completedDates, d) = 1

\* the record of key k exists before and after the step and was changed by it
Changed(k) ==
  /\ userChallenges[k].exists /\ userChallenges'[k].exists
  /\ userChallenges'[k] # userChallenges[k]

\* the step answered a completeChallenge request for key k
AnsweredComplete(k) ==
  /\ res' # res
  /\ res'.op = "completeChallenge"
  /\ k = <<res'.userId, res'.challengeId>>

\* C2: with requests run one after another, a request for a joined
\* challenge succeeds and appends today exactly when today is not yet in
\* completedDates, and is rejected with 400 and changes nothing otherwise; a
\* record only changes by such an append
C2_OncePerDay ==
  [][\A k \in Keys :
       LET doc == userChallenges[k]
           today == DayOf(now)
       IN /\ (AnsweredComplete(k) /\ doc.exists) =>
               IF today \in Range(doc.completedDates)
               THEN res'.status = 400 /\ userChallenges'[k] = doc
               ELSE /\ res'.status = 200
                    /\ userChallenges'[k].completedDates = Append(doc.completedDates, today)
          /\ Changed(k) =>
               /\ today \notin Range(doc.completedDates)
               /\ userChallenges'[k].completedDates = Append(doc.completedDates, today)
               /\ Count(userChallenges'[k].completedDates, today) = 1]_vars

\* C2 witness: a second request on a day that is already completed was
\* rejected
C2_Witness ==
  /\ res.op = "completeChallenge" /\ res.status = 400
  /\ userChallenges[<<res.userId, res.challengeId>>].exists
  /\ DayOf(now) \in Range(userChallenges[<<res.userId, res.challengeId>>].completedDates)

\* C3: a successful completion sets currentStreakCount to its previous value
\* plus 1 when the day before today is in completedDates and to 1 otherwise;
\* three completions on consecutive days since joining give 3, and a
\* completion two days after the only other one gives 1
C3_Streak ==
  [][\A k \in Keys :
       LET doc == userChallenges[k]
           after == userChallenges'[k]
           today == DayOf(now)
       IN /\ Changed(k) =>
               after.currentStreakCount =
                 IF (today - TicksPerDay) \in Range(doc.completedDates)
                 THEN doc.currentStreakCount + 1
                 ELSE 1
          /\ (after.exists /\ Len(after.completedDates) = 3
              /\ after.completedDates[2] = after.completedDates[1] + TicksPerDay
              /\ after.completedDates[3] = after.completedDates[2] + TicksPerDay)
             => after.currentStreakCount = 3
          /\ (after.exists /\ Len(after.completedDates) = 2
              /\ after.completedDates[2] = after.completedDates[1] + 2 * TicksPerDay)
             => after.currentStreakCount = 1]_vars

\* C3 witness: a record completed on the day of joining and the two days
\* after it, with a streak of 3
C3_Witness ==
  \E k \in Keys :
    /\ userChallenges[k].exists
    /\ userChallenges[k].completedDates =
         << DayOf(userChallenges[k].startDate),
            DayOf(userChallenges[k].startDate) + TicksPerDay,
            DayOf(userChallenges[k].startDate) + 2 * TicksPerDay >>
    /\ userChallenges[k].currentStreakCount = 3

\* C4: currentStreakCount <= maxStreakCount in every state, and no step
\* lowers the maxStreakCount of a record
C4_StreakBelowMax ==
  /\ [](\A k \in Keys :
          userChallenges[k].currentStreakCount <= userChallenges[k].maxStreakCount)
  /\ [][\A k \in Keys :
          (userChallenges[k].exists /\ userChallenges'[k].exists)
          => userChallenges'[k].maxStreakCount >= userChallenges[k].maxStreakCount]_vars

\* C4 witness: after a gap the streak was reset to 1 below a maximum of 4,
\* and a further completion raised it to 2
C4_Witness ==
  \E k \in Keys :
    /\ userChallenges[k].exists
    /\ userChallenges[k].maxStreakCount = 4
    /\ userChallenges[k].currentStreakCount = 2
    /\ userChallenges[k].totalCompletions = 6

\* C5: the score of a record is 10 times the number of its successful
\* completions, whatever its streak, and no step lowers it
C5_Score ==
  /\ [](\A k \in Keys :
          userChallenges[k].score = 10 * Len(userChallenges[k].completedDates))
  /\ [][\A k \in Keys :
          /\ (userChallenges[k].exists /\ userChallenges'[k].exists)
             => userChallenges'[k].score >= userChallenges[k].score
          /\ Changed(k) => userChallenges'[k].score = userChallenges[k].score + 10]_vars

\* C5 witness: a record whose streak was broken (1, below a maximum of 4)
\* has score 50 after 5 completions
C5_Witness ==
  \E k \in Keys :
    /\ userChallenges[k].exists
    /\ Len(userChallenges[k].completedDates) = 5
    /\ userChallenges[k].currentStreakCount = 1
    /\ userChallenges[k].maxStreakCount = 4
    /\ userChallenges[k].score = 50

\* C6: totalCompletions = Len(completedDates) = Len(completionPhotos) for
\* every record, and each photo entry carries the day of its completion
C6_Cardinality ==
  \A k \in Keys :
    LET doc == userChallenges[k]
    IN /\ doc.totalCompletions = Len(doc.completedDates)
       /\ Len(doc.completionPhotos) = Len(doc.completedDates)
       /\ \A i \in 1..Len(doc.completionPhotos) :
            i <= Len(doc.completedDates)
            => doc.completionPhotos[i].date = doc.completedDates[i]

\* C6 witness: a record that was joined in this run and completed twice
C6_Witness ==
  \E k \in Keys :
    /\ userChallenges[k].exists
    /\ userChallenges[k].startDate >= StartTick
    /\ userChallenges[k].totalCompletions = 2
    /\ Len(userChallenges[k].completionPhotos) = 2

\* C7: the trust score of every user stays within 0..100 points, and a
\* successful completion sets it to the smaller of 100 points and its previous
\* value plus the increase the response reports; no other step changes it
C7_TrustCap ==
  /\ [](\A u \in Users :
          users[u].trustScore >= 0 /\ users[u].trustScore <= 100 * Half)
  /\ [][\A u \in Users :
          LET before == users[u].trustScore
              raised == before + res'.data.trustScoreIncrease
          IN IF res' # res /\ res'.op = "completeChallenge" /\ res'.status = 200
                /\ res'.userId = u
             THEN /\ res'.data.trustScoreIncrease >= 1 * Half
                  /\ users'[u].trustScore = IF raised > 100 * Half THEN 100 * Half ELSE raised
             ELSE users'[u].trustScore = before]_vars

\* C7 witness: the user who started at 99 points completed a tenth day in a
\* row, which is worth 3 points, and has exactly 100
C7_Witness ==
  /\ res.op = "completeChallenge" /\ res.status = 200
  /\ res.data.trustScoreIncrease = 3 * Half
  /\ res.data.totalCompletions = 10
  /\ users[res.userId].trustScore = 100 * Half
  /\ res.data.trustScore = 100 * Half

\* the step answered a completeChallenge request with success
CompletedStep == res' # res /\ res'.op = "completeChallenge" /\ res'.status = 200

\* the step ran a badge evaluation pass of the badge-check route
PassStep == res' # res /\ res'.op = "checkAndAwardBadges"

\* the grade tier of a badge count
Tier(n) ==
  IF n >= 40 THEN "diamond" ELSE IF n >= 20 THEN "gold"
  ELSE IF n >= 10 THEN "silver" ELSE "bronze"

\* C8: after a successful completion that raises a lifetime aggregate of the
\* user to the threshold of a catalog badge, the badge is in earnedBadges, the
\* grade is the tier of the new badge count, and the response reports both
C8_BadgeCascade ==
  [][CompletedStep =>
       LET u == res'.userId
           earned == users'[u].earnedBadges
       IN \A b \in BadgeIds :
            (/\ Aggregate(userChallenges, u, Catalog[b]) < Catalog[b].value
             /\ Aggregate(userChallenges', u, Catalog[b]) >= Catalog[b].value)
            => /\ b \in Range(earned)
               /\ users'[u].grade = Tier(Len(earned))
               /\ res'.data.totalBadges = Len(earned)
               /\ res'.data.currentGrade = users'[u].grade]_vars

\* C9: a badge evaluation pass leaves a badge that was not yet earned in the
\* persisted earnedBadges exactly when the aggregate of its condition type
\* has reached its threshold
C9_GrantedIffMet ==
  [][PassStep =>
       LET u == res'.userId
       IN \A b \in BadgeIds \ Range(users[u].earnedBadges) :
            (b \in Range(users'[u].earnedBadges))
            <=> (Aggregate(userChallenges, u, Catalog[b]) >= Catalog[b].value)]_vars

\* C10: no step removes a badge from earnedBadges or moves it, and
\* earnedBadges never holds a badge twice
C10_BadgesPermanent ==
  /\ [](\A u \in Users : \A b \in Range(users[u].earnedBadges) :
          Count(users[u].earnedBadges, b) = 1)
  /\ [][\A u \in Users :
          /\ Len(users'[u].earnedBadges) >= Len(users[u].earnedBadges)
          /\ \A i \in 1..Len(users[u].earnedBadges) :
               i <= Len(users'[u].earnedBadges)
               => users'[u].earnedBadges[i] = users[u].earnedBadges[i]]_vars

\* C10 witness: a pass granted badges 2 and 3 to a user who had earned badge
\* 5 in an earlier pass
C10_Witness ==
  \E u \in Users :
    /\ res.op = "checkAndAwardBadges" /\ res.userId = u
    /\ users[u].earnedBadges = << 5, 2, 3 >>

\* C11: in every state reached by badge evaluation passes and
\* updateRepresentativeBadges requests, representativeBadges of every user has
\* at most 4 entries, its orders are pairwise distinct and within 1..4, and
\* each of its badges is in earnedBadges
C11_Representative ==
  \A u \in Users :
    LET rep == users[u].representativeBadges
    IN /\ Len(rep) <= 4
       /\ Cardinality({rep[i].order : i \in 1..Len(rep)}) = Len(rep)
       /\ \A i \in 1..Len(rep) : rep[i].order \in 1..4
       /\ \A i \in 1..Len(rep) :
            \E j \in 1..Len(users[u].earnedBadges) :
              users[u].earnedBadges[j] = rep[i].badgeId

\* C11 witness: the user chose two representative badges, later passes
\* appended two more with orders 3 and 4, and a sixth earned badge found the
\* list full
C11_Witness ==
  \E u \in Users :
    /\ Len(users[u].representativeBadges) = 4
    /\ users[u].representativeBadges[1] = [badgeId |-> 5, order |-> 2]
    /\ users[u].representativeBadges[2] = [badgeId |-> 2, order |-> 1]
    /\ users[u].representativeBadges[4].order = 4
    /\ Len(users[u].earnedBadges) > 4

\* C12: whenever a join or a completion has updateCompletionRate recompute the
\* rate of a challenge, the rate it computes lies in 0..100 and is the rate
\* stored on the challenge after the step
C12_RateBounds ==
  [][\A c \in Challenges :
       (\E u \in Users : userChallenges'[<<u, c>>] # userChallenges[<<u, c>>])
       => LET rate == ComputedRate(userChallenges', c, now)
          IN /\ rate >= 0 /\ rate <= 100
             /\ challenges'[c].completionRate = rate]_vars

\* C13: when the cascade of a completion runs updateCompletionRate on a
\* challenge that has no record left, the completionRate of the challenge is 0
\* afterwards
C13_EmptyRateZero ==
  [][\A r \in Reqs :
       LET c == requests[r].challengeId
       IN (/\ requests[r].pc = "saved"
           /\ requests'[r].pc = "idle" /\ requests'[r].status = 200
           /\ \A u \in Users : ~userChallenges[<<u, c>>].exists)
          => challenges'[c].completionRate = 0]_vars

\* C13 witness: the only participant of a challenge with rate 100 left while
\* the completion was in its cascade; the recompute found no record and the
\* rate is 0
C13_Witness ==
  \E r \in Reqs :
    /\ requests[r].pc = "idle" /\ requests[r].status = 200
    /\ requests[r].challengeId = "c1"
    /\ \A u \in Users : ~userChallenges[<<u, "c1">>].exists
    /\ challenges["c1"].participants = << >>
    /\ challenges["c1"].completionRate = 0

\* C14: the grade a completion computes from a badge count n is diamond for
\* n >= 40, gold for 20 <= n < 40, silver for 10 <= n < 20 and bronze for
\* n < 10; 12 gives silver, 20 gold, 39 gold and 40 diamond
C14_Grade ==
  [][(res' # res /\ res'.op = "completeChallenge" /\ res'.status = 200) =>
       LET n == Len(users'[res'.userId].earnedBadges)
           grade == users'[res'.userId].grade
       IN /\ res'.data.currentGrade = grade
          /\ res'.data.totalBadges = n
          /\ (n >= 40) => grade = "diamond"
          /\ (n >= 20 /\ n < 40) => grade = "gold"
          /\ (n >= 10 /\ n < 20) => grade = "silver"
          /\ (n < 10) => grade = "bronze"
          /\ (n = 12) => grade = "silver"
          /\ (n = 20) => grade = "gold"
          /\ (n = 39) => grade = "gold"
          /\ (n = 40) => grade = "diamond"]_vars

\* C14 witness: a completion of a user with exactly 40 earned badges reported
\* the top grade
C14_Witness ==
  /\ res.op = "completeChallenge" /\ res.status = 200
  /\ res.data.totalBadges = 40
  /\ Len(users[res.userId].earnedBadges) = 40
  /\ users[res.userId].grade = "diamond"

\* the record of a ranking entry comes before record b in the order the claim
\* gives for the metric
Ahead(a, b, metric) ==
  IF metric = "completions"
  THEN \/ a.totalCompletions > b.totalCompletions
       \/ a.totalCompletions = b.totalCompletions /\ a.score > b.score
  ELSE IF metric = "streak"
  THEN \/ a.maxStreakCount > b.maxStreakCount
       \/ /\ a.maxStreakCount = b.maxStreakCount
          /\ a.currentStreakCount > b.currentStreakCount
       \/ /\ a.maxStreakCount = b.maxStreakCount
          /\ a.currentStreakCount = b.currentStreakCount
          /\ a.score > b.score
  ELSE \/ a.score > b.score
       \/ a.score = b.score /\ a.totalCompletions > b.totalCompletions

\* C15: a per-challenge ranking response lists records of that challenge,
\* each at most once, as many as the page holds; the entry at index i of page
\* p has rank (p-1)*limit + i (indices from 1), fewer than rank records of the
\* challenge are ahead of it in the order of the metric and at least rank
\* records are not behind it
C15_ChallengeRanking ==
  (res.op = "getChallengeRanking") =>
    LET c == res.challengeId
        d == res.data
        list == d.rankings
        members == {u \in Users : userChallenges[<<u, c>>].exists}
        rec(u) == userChallenges[<<u, c>>]
        first == (d.page - 1) * d.limit
        left == Cardinality(members) - first
    IN /\ Len(list) = (IF left < 0 THEN 0 ELSE IF left < d.limit THEN left ELSE d.limit)
       /\ \A i \in 1..Len(list) :
            LET e == list[i].doc
            IN /\ e.userId \in members
               /\ e.score = rec(e.userId).score
               /\ e.totalCompletions = rec(e.userId).totalCompletions
               /\ e.currentStreakCount = rec(e.userId).currentStreakCount
               /\ e.maxStreakCount = rec(e.userId).maxStreakCount
               /\ list[i].rank = first + i
               /\ Cardinality({u \in members : Ahead(rec(u), e, d.rankingType)}) < list[i].rank
               /\ Cardinality({u \in members : ~Ahead(e, rec(u), d.rankingType)}) >= list[i].rank
       /\ \A i, j \in 1..Len(list) : i # j => list[i].doc.userId # list[j].doc.userId

\* C15 witness: a streak ranking of two records with the same maxStreakCount,
\* where the record with the higher currentStreakCount is first although its
\* score is lower
C15_Witness ==
  /\ res.op = "getChallengeRanking" /\ res.data.rankingType = "streak"
  /\ Len(res.data.rankings) = 2
  /\ res.data.rankings[1].rank = 1 /\ res.data.rankings[2].rank = 2
  /\ res.data.rankings[1].doc.maxStreakCount = res.data.rankings[2].doc.maxStreakCount
  /\ res.data.rankings[1].doc.currentStreakCount > res.data.rankings[2].doc.currentStreakCount
  /\ res.data.rankings[1].doc.score < res.data.rankings[2].doc.score

\* C16: a ranking query that follows the same query (same route, challenge,
\* metric, page and limit) with no write in between returns the same entries
\* in the same order with the same ranks
C16_RankingRepeatable ==
  [][(/\ res.op \in {"getChallengeRanking", "getUserRanking"}
      /\ res'.op = res.op
      /\ res'.challengeId = res.challengeId
      /\ res'.data.rankingType = res.data.rankingType
      /\ res'.data.page = res.data.page
      /\ res'.data.limit = res.data.limit
      /\ userChallenges' = userChallenges /\ users' = users)
     => res'.data.rankings = res.data.rankings]_vars

\* C17: a completeChallenge request answered 404 (not joined) or 400 (today
\* already completed) changes no record, no user and no challenge
C17_RejectionChangesNothing ==
  [][(/\ res' # res
      /\ res'.op = "completeChallenge"
      /\ res'.status \in {400, 404})
     => /\ userChallenges' = userChallenges
        /\ users' = users
        /\ challenges' = challenges]_vars

\* C17 witness: a user with progress in one challenge was refused a
\* completion of a challenge they have not joined
C17_Witness ==
  /\ res.op = "completeChallenge" /\ res.status = 404
  /\ ~userChallenges[<<res.userId, res.challengeId>>].exists
  /\ users[res.userId].trustScore > 0
  /\ \E c \in Challenges : userChallenges[<<res.userId, c>>].totalCompletions > 4

\* request slot r finishes the cascade of a completion in this step
CascadeEnds(r) == requests[r].pc = "saved" /\ requests'[r].pc = "idle"

\* C18: when the cascade of a completion whose record was saved ends, with or
\* without a rejected database call in one of its stages, the request is
\* answered with success and the saved completion is kept
C18_CascadeFailureNotSurfaced ==
  [][\A r \in Reqs :
       CascadeEnds(r) =>
         LET key == <<requests[r].userId, requests[r].challengeId>>
         IN /\ requests'[r].status = 200
            /\ res'.status = 200 /\ res'.success
            /\ userChallenges'[key].exists
            /\ \E i \in 1..Len(userChallenges'[key].completedDates) :
                 userChallenges'[key].completedDates[i] = requests[r].today]_vars

\* C19: when the trust-score persist or the badge evaluation of a completion
\* fails, the later stages still run: the grade is the tier of the badge
\* count and the completion rate of the challenge is the recomputed one
C19_LaterStagesRun ==
  [][\A r \in Reqs :
       (CascadeEnds(r) /\ requests'[r].failed \in {"trust", "badges"}) =>
         LET u == requests[r].userId
             c == requests[r].challengeId
             rate == ComputedRate(userChallenges', c, now)
         IN /\ users'[u].grade = Tier(Len(users'[u].earnedBadges))
            /\ (rate >= 0 /\ rate <= 100) => challenges'[c].completionRate = rate]_vars

\* C20: no step lowers the trust score of a user, and every completion that
\* finishes with success leaves the trust score at the smaller of 100 points
\* and the stored score plus its reported increase, so that two overlapping
\* completions for two challenges add up to both increases
C20_TrustMonotonic ==
  [][/\ \A u \in Users : users'[u].trustScore >= users[u].trustScore
     /\ \A r \in Reqs :
          (requests[r].pc = "saved" /\ requests'[r].pc = "idle" /\ requests'[r].status = 200)
          => LET u == requests[r].userId
                 sum == users[u].trustScore + res'.data.trustScoreIncrease
             IN users'[u].trustScore = (IF sum > 100 * Half THEN 100 * Half ELSE sum)]_vars

\* C21: the increase a successful completion reports is 1 point plus one
\* bonus chosen by the streak counter after the streak update: 2 points from
\* 10, else 1.5 from 7, else 1 from 3, else none (in half points: 6, 5, 4, 2)
C21_TrustIncrease ==
  [][(res' # res /\ res'.op = "completeChallenge" /\ res'.status = 200) =>
       LET streak == userChallenges'[<<res'.userId, res'.challengeId>>].currentStreakCount
           bonus == IF streak >= 10 THEN 4
                    ELSE IF streak >= 7 THEN 3
                    ELSE IF streak >= 3 THEN 2
                    ELSE 0
       IN /\ res'.data.currentStreakCount = streak
          /\ res'.data.trustScoreIncrease = 2 + bonus]_vars

\* C21 witness: the completion that made the streak 7 was worth 2.5 points
C21_Witness ==
  /\ res.op = "completeChallenge" /\ res.status = 200
  /\ res.data.currentStreakCount = 7
  /\ userChallenges[<<res.userId, res.challengeId>>].currentStreakCount = 7
  /\ res.data.trustScoreIncrease = 5

\* C22: the trustScoreIncrease a successful completion reports is the trust
\* score of the user after the completion minus the trust score before it
C22_ReportedDelta ==
  [][(res' # res /\ res'.op = "completeChallenge" /\ res'.status = 200) =>
       res'.data.trustScoreIncrease
         = users'[res'.userId].trustScore - users[res'.userId].trustScore]_vars

\* C23: after every step that runs a badge evaluation pass for a user, by a
\* successful completion or by the badge-check route, the stored grade of the
\* user is the tier of the number of earned badges
C23_GradeAfterPass ==
  [][(/\ res' # res
      /\ \/ res'.op = "checkAndAwardBadges"
         \/ res'.op = "completeChallenge" /\ res'.status = 200)
     => LET n == Len(users'[res'.userId].earnedBadges)
        IN users'[res'.userId].grade =
             (IF n >= 40 THEN "diamond" ELSE IF n >= 20 THEN "gold"
              ELSE IF n >= 10 THEN "silver" ELSE "bronze")]_vars

\* C24: a badge pass that grants badges keeps every representativeBadges
\* entry where it was, appends the granted badges in scan order with orders
\* length + 1, length + 2, ... while there are fewer than 4 entries, and
\* appends nothing once there are 4
C24_AutoFill ==
  [][(res' # res /\ res'.op = "checkAndAwardBadges"
      /\ users'[res'.userId].earnedBadges # users[res'.userId].earnedBadges) =>
       LET u == res'.userId
           rep == users[u].representativeBadges
           after == users'[u].representativeBadges
           had == Len(users[u].earnedBadges)
           granted == [i \in 1..(Len(users'[u].earnedBadges) - had) |->
                         users'[u].earnedBadges[had + i]]
           free == IF Len(rep) < 4 THEN 4 - Len(rep) ELSE 0
           filled == IF Len(granted) < free THEN Len(granted) ELSE free
       IN /\ \A i, j \in 1..Len(granted) : i < j => granted[i] < granted[j]
          /\ Len(after) = Len(rep) + filled
          /\ \A i \in 1..Len(rep) : i <= Len(after) => after[i] = rep[i]
          /\ \A i \in 1..filled :
               after[Len(rep) + i] = [badgeId |-> granted[i], order |-> Len(rep) + i]]_vars

\* C24 witness: one pass granted all six badges of the catalog to a user
\* without representative badges, and the first four in scan order took the
\* orders 1 to 4
C24_Witness ==
  \E u \in Users :
    /\ res.op = "checkAndAwardBadges" /\ res.userId = u
    /\ users[u].earnedBadges = << 1, 2, 3, 4, 5, 6 >>
    /\ users[u].representativeBadges =
         << [badgeId |-> 1, order |-> 1], [badgeId |-> 2, order |-> 2],
            [badgeId |-> 3, order |-> 3], [badgeId |-> 4, order |-> 4] >>

\* C25: a my-rank response gives rank = 1 + the number of records of the
\* challenge that are ahead of the user's record in the order of the metric,
\* and percentile = round(100 * (total - rank + 1) / total); hence
\* 1 <= rank <= total and 0 < percentile <= 100
C25_MyRank ==
  [][(res' # res /\ res'.op = "getMyChallengeRank" /\ res'.status = 200) =>
       LET c == res'.challengeId
           d == res'.data
           members == {u \in Users : userChallenges[<<u, c>>].exists}
           rec(u) == userChallenges[<<u, c>>]
           total == Cardinality(members)
           part == total - d.rank + 1
       IN /\ res'.userId \in members
          /\ d.totalParticipants = total
          /\ d.rank = 1 + Cardinality({u \in members :
                                         Ahead(rec(u), rec(res'.userId), d.rankingType)})
          /\ d.rank >= 1 /\ d.rank <= total
          /\ 2 * total * d.percentile <= 200 * part + total
          /\ 200 * part + total < 2 * total * (d.percentile + 1)
          /\ d.percentile > 0 /\ d.percentile <= 100]_vars

\* C25 witness: the second of three participants is told rank 2 and
\* percentile 67
C25_Witness ==
  /\ res.op = "getMyChallengeRank" /\ res.status = 200
  /\ res.data.totalParticipants = 3
  /\ res.data.rank = 2
  /\ res.data.percentile = 67

\* the ranks the per-challenge ranking of metric t can give the record of user
\* u of challenge c, the whole challenge on one page
ListRanks(u, c, t) ==
  LET n == Cardinality(ChallengeDocs(c))
  IN {Ranked(PageOf(x[1], 1, n), 1, n)[x[2]].rank :
        x \in {y \in SortOutcomes(ChallengeDocs(c), sortField(t)) \X (1..n) :
                 y[1][y[2]].userId = u}}

\* another record of challenge c is equal to the record of u on every sort key
\* of metric t
TiedWithAnother(u, c, t) ==
  \E v \in Users \ {u} :
    /\ userChallenges[<<v, c>>].exists
    /\ ~Ahead(userChallenges[<<v, c>>], userChallenges[<<u, c>>], t)
    /\ ~Ahead(userChallenges[<<u, c>>], userChallenges[<<v, c>>], t)

\* C26: the rank a my-rank response gives is the rank the record has in the
\* per-challenge ranking of the same metric when no other record is equal to
\* it on every sort key, and is never greater than the rank in the list
C26_MyRankMatchesList ==
  [][(res' # res /\ res'.op = "getMyChallengeRank" /\ res'.status = 200) =>
       LET u == res'.userId
           c == res'.challengeId
           t == res'.data.rankingType
       IN /\ ListRanks(u, c, t) # {}
          /\ \A listRank \in ListRanks(u, c, t) :
               /\ res'.data.rank <= listRank
               /\ ~TiedWithAnother(u, c, t) => res'.data.rank = listRank]_vars

\* C26 witness: a participant tied with another one on every key is told
\* rank 1 while the list may show them at rank 2, behind a third participant
\* in neither case
C26_Witness ==
  /\ res.op = "getMyChallengeRank" /\ res.status = 200
  /\ res.data.rank = 1 /\ res.data.totalParticipants = 3
  /\ TiedWithAnother(res.userId, res.challengeId, res.data.rankingType)
  /\ ListRanks(res.userId, res.challengeId, res.data.rankingType) = {1, 2}

\* the length of the run of consecutive calendar days in dates that ends at
\* day d
RunEndingAt(dates, d) ==
  Cardinality({n \in 1..Len(dates) :
                 \A j \in 0..(n - 1) :
                   \E i \in 1..Len(dates) : dates[i] = d - j * TicksPerDay})

\* C27: with join and complete requests run one after another, in every
\* record completedDates is strictly increasing, lastCompletionDate is its
\* greatest day, currentStreakCount is the length of the run of consecutive
\* days that ends at lastCompletionDate, and maxStreakCount is the length of
\* the longest run
C27_StreakIsRunLength ==
  \A k \in Keys :
    LET doc == userChallenges[k]
        dates == doc.completedDates
        runs == {RunEndingAt(dates, dates[i]) : i \in 1..Len(dates)}
    IN doc.exists =>
         /\ \A i, j \in 1..Len(dates) : i < j => dates[i] < dates[j]
         /\ IF Len(dates) = 0
            THEN /\ doc.lastCompletionDate = 0 - 1
                 /\ doc.currentStreakCount = 0
                 /\ doc.maxStreakCount = 0
            ELSE /\ \A i \in 1..Len(dates) : dates[i] <= doc.lastCompletionDate
                 /\ \E i \in 1..Len(dates) : dates[i] = doc.lastCompletionDate
                 /\ doc.currentStreakCount = RunEndingAt(dates, doc.lastCompletionDate)
                 /\ doc.maxStreakCount \in runs
                 /\ \A n \in runs : n <= doc.maxStreakCount

\* C27 witness: after a run of 9 days and a missed day, two further days
\* give a current streak of 2 below the maximum of 9
C27_Witness ==
  \E k \in Keys :
    /\ userChallenges[k].exists
    /\ Len(userChallenges[k].completedDates) = 11
    /\ userChallenges[k].currentStreakCount = 2
    /\ userChallenges[k].maxStreakCount = 9

\* C28: with join, complete and leave requests run one after another, every
\* request that changes the records or the participants of a challenge leaves
\* the stored completionRate equal to the rate a recompute over the records of
\* the challenge gives at that moment; it is 0 once the last participant has
\* left
C28_RateIsRecompute ==
  [][\A c \in Challenges :
       (\/ challenges'[c].participants # challenges[c].participants
        \/ \E u \in Users : userChallenges'[<<u, c>>] # userChallenges[<<u, c>>])
       => challenges'[c].completionRate = ComputedRate(userChallenges', c, now)]_vars

\* C29: with join and leave requests run one after another, for every
\* challenge and user the user is in participants exactly when the record of
\* the pair exists and exactly when the id of the record is in userInfo, and
\* neither list holds an entry twice
C29_MembershipConsistent ==
  \A c \in Challenges :
    LET challenge == challenges[c]
    IN /\ \A u \in Users :
            /\ u \in Range(challenge.participants) <=> userChallenges[<<u, c>>].exists
            /\ IdOf(u, c) \in Range(challenge.userInfo) <=> userChallenges[<<u, c>>].exists
       /\ \A i, j \in 1..Len(challenge.participants) :
            challenge.participants[i] = challenge.participants[j] => i = j
       /\ \A i, j \in 1..Len(challenge.userInfo) :
            challenge.userInfo[i] = challenge.userInfo[j] => i = j

\* C29 witness: u2 joined c1 beside the seeded participant u1, then u1 left
\* (the rate computed at the join is still stored); u3 holds the place in c2
C29_Witness ==
  /\ challenges["c1"].participants = <<"u2">>
  /\ challenges["c1"].userInfo = <<IdOf("u2", "c1")>>
  /\ challenges["c1"].completionRate > 0
  /\ userChallenges[<<"u2", "c1">>].exists
  /\ ~userChallenges[<<"u1", "c1">>].exists
  /\ challenges["c2"].participants = <<"u3">>
  /\ userChallenges[<<"u3", "c2">>].exists

\* C30: the number of participants of a challenge never exceeds its
\* maxParticipants, also when joinChallenge requests of different users
\* overlap
C30_Capacity ==
  \A c \in Challenges :
    Len(challenges[c].participants) <= challenges[c].maxParticipants

====
